---- MODULE Spec2Model ----
(***************************************************************************)
(* Document-Analyzer: the upload / poll / analyse / save pipeline of       *)
(* document_analyzer.py and the marker parser inside analyze_document.     *)
(*                                                                         *)
(* Text is modelled as sequences of one-character strings, so that the     *)
(* regular-expression search, the case folding and str.strip() are         *)
(* computed character by character.                                        *)
(***************************************************************************)
EXTENDS Integers, Sequences, FiniteSets, TLC

(***************************************************************************)
(* Bounds of the model.                                                    *)
(***************************************************************************)
\* largest value of the `retries` argument explored
MaxRetries == 3
\* a get_file call takes between 0 and MaxLatency seconds of wall-clock time
MaxLatency == 1
\* a raw response of the parser specification is built from at most this
\* many pieces
MaxPieces == 3

(***************************************************************************)
(* Program constants.                                                      *)
(***************************************************************************)
processing_timeout == 300
poll_interval == 15

TEXT_START_MARKER ==
    <<"-", "-", "-", " ", "S", "T", "A", "R", "T", " ", "O", "F", " ", "E", "X", "T", "R", "A", "C", "T", "E", "D", " ", "T", "E", "X", "T", " ", "-", "-", "-">>
TEXT_END_MARKER ==
    <<"-", "-", "-", " ", "E", "N", "D", " ", "O", "F", " ", "E", "X", "T", "R", "A", "C", "T", "E", "D", " ", "T", "E", "X", "T", " ", "-", "-", "-">>
SUMMARY_START_MARKER ==
    <<"-", "-", "-", " ", "S", "T", "A", "R", "T", " ", "O", "F", " ", "S", "U", "M", "M", "A", "R", "Y", " ", "-", "-", "-">>
SUMMARY_END_MARKER ==
    <<"-", "-", "-", " ", "E", "N", "D", " ", "O", "F", " ", "S", "U", "M", "M", "A", "R", "Y", " ", "-", "-", "-">>

(***************************************************************************)
(* Text pieces from which raw responses are assembled.                     *)
(***************************************************************************)
MixedCaseStart ==
    <<"-", "-", "-", " ", "s", "t", "a", "r", "t", " ", "o", "f", " ", "E", "x", "t", "r", "a", "c", "t", "e", "d", " ", "t", "e", "x", "t", " ", "-", "-", "-">>
LowerSummaryEnd ==
    <<"-", "-", "-", " ", "e", "n", "d", " ", "o", "f", " ", "s", "u", "m", "m", "a", "r", "y", " ", "-", "-", "-">>
Hello == <<"\n", "H", "E", "L", "L", "O", "\n">>
Blank == <<" ", "\n">>
\* a start marker cut before its closing dashes: followed by an end marker it
\* gives a text in which the two markers share the dashes
StartPrefix ==
    <<"-", "-", "-", " ", "S", "T", "A", "R", "T", " ", "O", "F", " ", "E", "X", "T", "R", "A", "C", "T", "E", "D", " ", "T", "E", "X", "T", " ">>
SummarySection ==
    SUMMARY_START_MARKER \o <<"\n", "S", "u", "m", " ", "\n">> \o LowerSummaryEnd

Pieces ==
    { TEXT_START_MARKER, TEXT_END_MARKER, MixedCaseStart, SUMMARY_START_MARKER,
      SUMMARY_END_MARKER, Hello, Blank, StartPrefix, SummarySection }

\* a response whose summary section is blank and whose text section is not
EmptySummaryResponse ==
    SUMMARY_START_MARKER \o Blank \o SUMMARY_END_MARKER
       \o TEXT_START_MARKER \o Hello \o TEXT_END_MARKER

\* the raw responses the remote model returns in the pipeline specification
Responses ==
    { <<>>,
      Blank,
      <<"j", "u", "s", "t", " ", "s", "o", "m", "e", " ", "t", "e", "x", "t">>,
      TEXT_START_MARKER \o Hello \o TEXT_END_MARKER,
      SummarySection \o Blank \o MixedCaseStart \o Hello \o TEXT_END_MARKER,
      SummarySection,
      TEXT_START_MARKER \o Blank \o TEXT_END_MARKER,
      EmptySummaryResponse }

(***************************************************************************)
(* Optional values: Python's None against a str.                           *)
(***************************************************************************)
None == [present |-> FALSE, text |-> <<>>]
Some(s) == [present |-> TRUE, text |-> s]

(***************************************************************************)
(* Characters.                                                             *)
(***************************************************************************)
UpperCase ==
    <<"A", "B", "C", "D", "E", "F", "G", "H", "I", "J", "K", "L", "M",
      "N", "O", "P", "Q", "R", "S", "T", "U", "V", "W", "X", "Y", "Z">>
LowerCase ==
    <<"a", "b", "c", "d", "e", "f", "g", "h", "i", "j", "k", "l", "m",
      "n", "o", "p", "q", "r", "s", "t", "u", "v", "w", "x", "y", "z">>

\* Fold without re.IGNORECASE: characters are compared as they are
FoldCaseSensitive(c) == c

\* re.IGNORECASE compares characters after case folding
FoldTable ==
    [c \in {UpperCase[i] : i \in 1..Len(UpperCase)} |->
        LowerCase[CHOOSE i \in 1..Len(UpperCase) : UpperCase[i] = c]]

Fold(c) == IF c \in DOMAIN FoldTable THEN FoldTable[c] ELSE c

\* the characters str.strip() removes
IsSpace(c) == c \in {" ", "\n", "\t", "\r"}

(***************************************************************************)
(* re.search(re.escape(start) + "(.*?)" + re.escape(end), s,               *)
(*           re.DOTALL | re.IGNORECASE)                                    *)
(***************************************************************************)
\* the escaped literal m matches s at position i, ignoring case
MatchAt(s, i, m) ==
    /\ i >= 1
    /\ i + Len(m) - 1 <= Len(s)
    /\ \A k \in 1..Len(m) : Fold(s[i + k - 1]) = Fold(m[k])

\* the lazy group (.*?) grows one character at a time (DOTALL: any
\* character) from position j until the end marker matches: the position of
\* the first end marker at or after j, 0 when there is none
LazyEnd(s, j, endM) ==
    LET ends == {k \in j..Len(s) : MatchAt(s, k, endM)}
    IN  IF ends = {} THEN 0 ELSE CHOOSE k \in ends : \A l \in ends : k <= l

\* the search tries the starting positions from i on, left to right, and
\* returns the match at the first one at which the whole pattern matches
SearchFrom(s, i, startM, endM) ==
    LET starts == {k \in i..Len(s) :
                      MatchAt(s, k, startM) /\ LazyEnd(s, k + Len(startM), endM) # 0}
    IN  IF starts = {} THEN [found |-> FALSE, group |-> <<>>]
        ELSE LET k == CHOOSE x \in starts : \A y \in starts : x <= y
             IN  [found |-> TRUE,
                  group |-> SubSeq(s, k + Len(startM),
                                   LazyEnd(s, k + Len(startM), endM) - 1)]

re_search(startM, endM, s) == SearchFrom(s, 1, startM, endM)

(***************************************************************************)
(* str.strip()                                                             *)
(***************************************************************************)
RECURSIVE lstrip(_)
lstrip(s) ==
    IF s # <<>> /\ IsSpace(Head(s)) THEN lstrip(Tail(s)) ELSE s

RECURSIVE rstrip(_)
rstrip(s) ==
    IF s # <<>> /\ IsSpace(s[Len(s)]) THEN rstrip(SubSeq(s, 1, Len(s) - 1)) ELSE s

strip(s) == rstrip(lstrip(s))

(***************************************************************************)
(* The parsing part of analyze_document (from response.text to the         *)
(* returned pair).                                                         *)
(***************************************************************************)
text_match(raw) == re_search(TEXT_START_MARKER, TEXT_END_MARKER, raw)

summary_match(raw) == re_search(SUMMARY_START_MARKER, SUMMARY_END_MARKER, raw)

\* extracted_text after the "Extract full text" block
MarkerText(raw) ==
    IF text_match(raw).found THEN Some(strip(text_match(raw).group)) ELSE None

\* MarkerSummary without the test of the mode
MarkerSummaryAnyMode(raw, mode) ==
    IF summary_match(raw).found
    THEN Some(strip(summary_match(raw).group))
    ELSE None

\* summary_text after the "Extract summary if in summary mode" block
MarkerSummary(raw, mode) ==
    IF mode = "summary"
    THEN IF summary_match(raw).found
         THEN Some(strip(summary_match(raw).group))
         ELSE None
    ELSE None

\* FallbackText testing extracted_text alone
FallbackTextIgnoresSummary(raw, et, st) ==
    IF ~et.present /\ strip(raw) # <<>>
    THEN Some(strip(raw))
    ELSE et

\* extracted_text after the fallback block ("If we didn't extract anything")
FallbackText(raw, et, st) ==
    IF ~et.present /\ ~st.present /\ strip(raw) # <<>>
    THEN Some(strip(raw))
    ELSE et

(***************************************************************************)
(* State.                                                                  *)
(***************************************************************************)
VARIABLES
    pc,                 \* position of the running program
    file_exists,        \* os.path.exists(file_path)
    retries,            \* the retries argument of upload_file_to_gemini
    attempt,            \* upload_file_to_gemini: attempt
    uploaded_file,      \* upload_file_to_gemini: uploaded_file (0: unbound)
    file_state,         \* uploaded_file.state.name
    elapsed,            \* time.time() - start_time, in seconds
    handle,             \* __main__: uploaded_file (0: None)
    extract_mode,       \* args.mode
    gen_outcome,        \* how model.generate_content ended
    full_response_text, \* analyze_document: full_response_text
    extracted_text,     \* the first component of analyze_document's result
    summary_text,       \* the second component of analyze_document's result
    content_to_save,    \* __main__: content_to_save
    \* what the remote service and the file system have seen
    uploadCalls,        \* genai.upload_file calls issued
    uploadFails,        \* ... of which raised
    getFileCalls,       \* "none", or "some" once genai.get_file was called
    getFileFails,       \* genai.get_file calls that raised
    deleteCalls,        \* deleteCalls[h]: genai.delete_file calls against h
    deleteFails,        \* genai.delete_file calls that raised
    generateCalls,      \* model.generate_content calls issued
    saveCalls,          \* save_to_text_file / save_to_word_file calls
    outcome,            \* outcome[h]: how the wait for handle h ended
    uploadsAtExit,      \* uploadCalls when the polling loop was left
    npieces,            \* pieces put into the raw response so far
    language,           \* args.language
    output_format,      \* args.format
    output_file,        \* the file at output_path
    gui,                \* DocumentAnalyzerGUI: the Tk variables and the button
    worker,             \* the analysis thread of the GUI: what it has read
    launched            \* the GUI's parameters when start_analysis ran

vars ==
    << pc, file_exists, retries, attempt, uploaded_file, file_state, elapsed,
       handle, extract_mode, gen_outcome, full_response_text, extracted_text,
       summary_text, content_to_save, uploadCalls, uploadFails, getFileCalls,
       getFileFails, deleteCalls, deleteFails, generateCalls, saveCalls,
       outcome, uploadsAtExit, npieces, language, output_format, output_file,
       gui, worker, launched >>

uploadVars == << attempt, uploaded_file, file_state, elapsed >>
analysisVars ==
    << gen_outcome, full_response_text, extracted_text, summary_text,
       content_to_save >>
remoteLog ==
    << uploadCalls, uploadFails, getFileCalls, getFileFails, deleteCalls,
       deleteFails, generateCalls, saveCalls, outcome, uploadsAtExit >>
args == << file_exists, retries, extract_mode, npieces >>
outVars == << language, output_format, output_file >>
guiVars == << gui, worker, launched >>

\* the values of uploaded_file.state.name
FileStates == {"STATE_UNSPECIFIED", "PROCESSING", "ACTIVE", "FAILED", "DELETED"}

Modes == {"full", "summary"}

Languages == {"arabic", "english"}

Formats == {"text", "docx"}

\* no file at output_path
NoFile == [kind |-> "none"]

\* DocumentAnalyzerGUI.__init__: the Tk variables and the Analyze button
GuiInit ==
    [input_path |-> "", output_path |-> "", language |-> "arabic",
     output_format |-> "text", extract_mode |-> "full",
     processing |-> FALSE, analyze_button |-> "normal"]

\* no analysis thread is running: the locals of analyze_document
WorkerIdle ==
    [pc |-> "idle", threads |-> 0, analysis_mode |-> "", result |-> "none",
     content |-> "none", output_format |-> "", title_mode |-> ""]

\* start_analysis has not run yet
NotLaunched ==
    [input_path |-> "", output_path |-> "", language |-> "",
     output_format |-> "", extract_mode |-> ""]

Init ==
    /\ pc = "upload_entry"
    /\ file_exists \in BOOLEAN
    /\ retries \in 0..MaxRetries
    /\ extract_mode \in Modes
    /\ attempt = 0
    /\ uploaded_file = 0
    /\ file_state = "STATE_UNSPECIFIED"
    /\ elapsed = 0
    /\ handle = 0
    /\ gen_outcome = "none"
    /\ full_response_text = <<>>
    /\ extracted_text = None
    /\ summary_text = None
    /\ content_to_save = None
    /\ uploadCalls = 0
    /\ uploadFails = 0
    /\ getFileCalls = "none"
    /\ getFileFails = 0
    /\ deleteCalls = <<>>
    /\ deleteFails = 0
    /\ generateCalls = 0
    /\ saveCalls = 0
    /\ outcome = <<>>
    /\ uploadsAtExit = 0
    /\ npieces = 0
    /\ language \in Languages
    /\ output_format \in Formats
    /\ output_file = NoFile
    /\ gui = GuiInit
    /\ worker = WorkerIdle
    /\ launched = NotLaunched

(***************************************************************************)
(* upload_file_to_gemini                                                   *)
(***************************************************************************)
\* "return x" of upload_file_to_gemini: control is back in __main__ and the
\* locals of the call are gone
UploadReturns(x) ==
    /\ handle' = x
    /\ pc' = "main_check"
    /\ attempt' = 0
    /\ uploaded_file' = 0
    /\ file_state' = "STATE_UNSPECIFIED"
    /\ elapsed' = 0

\* the os.path.exists test
UploadEntry ==
    /\ pc = "upload_entry"
    /\ IF file_exists
       THEN pc' = "loop" /\ UNCHANGED << handle, uploadVars >>
       ELSE UploadReturns(0)
    /\ UNCHANGED << args, outVars, guiVars, analysisVars, remoteLog >>

\* "while attempt < retries", and the "return None" after the loop
LoopHead ==
    /\ pc = "loop"
    /\ IF attempt < retries
       THEN pc' = "upload" /\ UNCHANGED << handle, uploadVars >>
       ELSE UploadReturns(0)
    /\ UNCHANGED << args, outVars, guiVars, analysisVars, remoteLog >>

\* ExceptHandler giving up one attempt early
ExceptHandlerGivesUpEarly ==
    IF attempt + 2 < retries
    THEN /\ attempt' = attempt + 1
         /\ pc' = "loop"
         /\ UNCHANGED << handle, uploaded_file, file_state, elapsed >>
    ELSE UploadReturns(0)

\* ExceptHandler without "attempt += 1"
ExceptHandlerNoIncrement ==
    IF attempt + 1 < retries
    THEN /\ pc' = "loop"
         /\ UNCHANGED << handle, attempt, uploaded_file, file_state, elapsed >>
    ELSE UploadReturns(0)

\* the "except Exception" handler of the retry loop
ExceptHandler ==
    IF attempt + 1 < retries
    THEN /\ attempt' = attempt + 1
         /\ pc' = "loop"
         /\ UNCHANGED << handle, uploaded_file, file_state, elapsed >>
    ELSE UploadReturns(0)

\* genai.upload_file returns a file in state s
UploadOk(s) ==
    /\ pc = "upload"
    /\ uploadCalls' = uploadCalls + 1
    /\ deleteCalls' = Append(deleteCalls, 0)
    /\ outcome' = Append(outcome, "pending")
    /\ uploaded_file' = Len(deleteCalls) + 1
    /\ file_state' = s
    /\ elapsed' = 0
    /\ pc' = "poll"
    /\ UNCHANGED << args, outVars, guiVars, attempt, handle, analysisVars, uploadFails,
                    getFileCalls, getFileFails, deleteFails, generateCalls,
                    saveCalls, uploadsAtExit >>

\* genai.upload_file raises
UploadFail ==
    /\ pc = "upload"
    /\ uploadCalls' = uploadCalls + 1
    /\ uploadFails' = uploadFails + 1
    /\ ExceptHandler
    /\ UNCHANGED << args, outVars, guiVars, analysisVars, getFileCalls, getFileFails,
                    deleteCalls, deleteFails, generateCalls, saveCalls, outcome,
                    uploadsAtExit >>

\* the test of the timeout inside "while state == PROCESSING"
PollTimeout ==
    /\ pc = "poll"
    /\ file_state = "PROCESSING"
    /\ elapsed > processing_timeout
    /\ outcome' = [outcome EXCEPT ![uploaded_file] = "timed_out"]
    /\ uploadsAtExit' = uploadCalls
    /\ pc' = "timeout_cleanup"
    /\ UNCHANGED << args, outVars, guiVars, uploadVars, handle, analysisVars, uploadCalls,
                    uploadFails, getFileCalls, getFileFails, deleteCalls,
                    deleteFails, generateCalls, saveCalls >>

\* GetFileOk with "start_time = time.time()" inside the polling loop: the
\* elapsed time is measured from the last iteration
GetFileOkRestartsClock(s, lat) ==
    /\ pc = "poll"
    /\ file_state = "PROCESSING"
    /\ ~(elapsed > processing_timeout)
    /\ elapsed' = poll_interval + lat
    /\ getFileCalls' = "some"
    /\ file_state' = s
    /\ UNCHANGED << pc, args, outVars, guiVars, attempt, uploaded_file, handle,
                    analysisVars, uploadCalls, uploadFails, getFileFails,
                    deleteCalls, deleteFails, generateCalls, saveCalls, outcome,
                    uploadsAtExit >>

\* time.sleep(15), then genai.get_file returns state s after lat seconds
GetFileOk(s, lat) ==
    /\ pc = "poll"
    /\ file_state = "PROCESSING"
    /\ ~(elapsed > processing_timeout)
    /\ elapsed' = elapsed + poll_interval + lat
    /\ getFileCalls' = "some"
    /\ file_state' = s
    /\ UNCHANGED << pc, args, outVars, guiVars, attempt, uploaded_file, handle, analysisVars,
                    uploadCalls, uploadFails, getFileFails, deleteCalls,
                    deleteFails, generateCalls, saveCalls, outcome,
                    uploadsAtExit >>

\* time.sleep(15), then genai.get_file raises
GetFileFail ==
    /\ pc = "poll"
    /\ file_state = "PROCESSING"
    /\ ~(elapsed > processing_timeout)
    /\ getFileCalls' = "some"
    /\ getFileFails' = getFileFails + 1
    /\ outcome' = [outcome EXCEPT ![uploaded_file] = "poll_raised"]
    /\ ExceptHandler
    /\ UNCHANGED << args, outVars, guiVars, analysisVars, uploadCalls, uploadFails, deleteCalls,
                    deleteFails, generateCalls, saveCalls, uploadsAtExit >>

\* PollExit without the test for DELETED before the clean-up
PollExitDeletesAlways ==
    /\ pc = "poll"
    /\ file_state # "PROCESSING"
    /\ outcome' = [outcome EXCEPT ![uploaded_file] = file_state]
    /\ uploadsAtExit' = uploadCalls
    /\ IF file_state = "ACTIVE"
       THEN UploadReturns(uploaded_file)
       ELSE pc' = "state_cleanup" /\ UNCHANGED << handle, uploadVars >>
    /\ UNCHANGED << args, outVars, guiVars, analysisVars, uploadCalls, uploadFails,
                    getFileCalls, getFileFails, deleteCalls, deleteFails,
                    generateCalls, saveCalls >>

\* the state left PROCESSING: the "if ... == ACTIVE ... else" after the loop
PollExit ==
    /\ pc = "poll"
    /\ file_state # "PROCESSING"
    /\ outcome' = [outcome EXCEPT ![uploaded_file] = file_state]
    /\ uploadsAtExit' = uploadCalls
    /\ IF file_state = "ACTIVE"
       THEN UploadReturns(uploaded_file)
       ELSE IF file_state # "DELETED"
            THEN pc' = "state_cleanup" /\ UNCHANGED << handle, uploadVars >>
            ELSE UploadReturns(0)
    /\ UNCHANGED << args, outVars, guiVars, analysisVars, uploadCalls, uploadFails,
                    getFileCalls, getFileFails, deleteCalls, deleteFails,
                    generateCalls, saveCalls >>

\* CleanupDelete without its try/except: a failing delete call reaches the
\* handler of the retry loop
CleanupDeleteUnguarded(ok) ==
    /\ pc \in {"timeout_cleanup", "state_cleanup"}
    /\ deleteCalls' = [deleteCalls EXCEPT ![uploaded_file] = @ + 1]
    /\ deleteFails' = IF ok THEN deleteFails ELSE deleteFails + 1
    /\ IF ok THEN UploadReturns(0) ELSE ExceptHandler
    /\ UNCHANGED << args, outVars, guiVars, analysisVars, uploadCalls, uploadFails,
                    getFileCalls, getFileFails, generateCalls, saveCalls,
                    outcome, uploadsAtExit >>

\* genai.delete_file inside a try/except of upload_file_to_gemini, followed
\* by "return None"; ok is whether the call returned
CleanupDelete(ok) ==
    /\ pc \in {"timeout_cleanup", "state_cleanup"}
    /\ deleteCalls' = [deleteCalls EXCEPT ![uploaded_file] = @ + 1]
    /\ deleteFails' = IF ok THEN deleteFails ELSE deleteFails + 1
    /\ UploadReturns(0)
    /\ UNCHANGED << args, outVars, guiVars, analysisVars, uploadCalls, uploadFails,
                    getFileCalls, getFileFails, generateCalls, saveCalls, outcome,
                    uploadsAtExit >>

(***************************************************************************)
(* __main__ and analyze_document                                           *)
(***************************************************************************)
\* MainCheck without the test of the upload result
MainCheckAlwaysAnalyzes ==
    /\ pc = "main_check"
    /\ pc' = "generate"
    /\ UNCHANGED << args, outVars, guiVars, uploadVars, handle, analysisVars, remoteLog >>

\* "if uploaded_file:" of __main__
MainCheck ==
    /\ pc = "main_check"
    /\ pc' = IF handle # 0 THEN "generate" ELSE "done"
    /\ UNCHANGED << args, outVars, guiVars, uploadVars, handle, analysisVars, remoteLog >>

\* model.generate_content raises, or response.text raises: "return None, None"
GenerateRaises ==
    /\ pc = "generate"
    /\ generateCalls' = generateCalls + 1
    /\ gen_outcome' = "raised"
    /\ extracted_text' = None
    /\ summary_text' = None
    /\ pc' = "finally"
    /\ UNCHANGED << args, outVars, guiVars, uploadVars, handle, full_response_text,
                    content_to_save, uploadCalls, uploadFails, getFileCalls,
                    getFileFails, deleteCalls, deleteFails, saveCalls, outcome,
                    uploadsAtExit >>

\* the response has no text attribute: "return None, None"
GenerateNoText ==
    /\ pc = "generate"
    /\ generateCalls' = generateCalls + 1
    /\ gen_outcome' = "no_text"
    /\ extracted_text' = None
    /\ summary_text' = None
    /\ pc' = "finally"
    /\ UNCHANGED << args, outVars, guiVars, uploadVars, handle, full_response_text,
                    content_to_save, uploadCalls, uploadFails, getFileCalls,
                    getFileFails, deleteCalls, deleteFails, saveCalls, outcome,
                    uploadsAtExit >>

\* the response carries the text r
GenerateText(r) ==
    /\ pc = "generate"
    /\ generateCalls' = generateCalls + 1
    /\ gen_outcome' = "text"
    /\ full_response_text' = r
    /\ pc' = "parse"
    /\ UNCHANGED << args, outVars, guiVars, uploadVars, handle, extracted_text, summary_text,
                    content_to_save, uploadCalls, uploadFails, getFileCalls,
                    getFileFails, deleteCalls, deleteFails, saveCalls, outcome,
                    uploadsAtExit >>

\* the two marker searches
MarkerSearch ==
    /\ pc = "parse"
    /\ extracted_text' = MarkerText(full_response_text)
    /\ summary_text' = MarkerSummary(full_response_text, extract_mode)
    /\ pc' = "fallback"
    /\ UNCHANGED << args, outVars, guiVars, uploadVars, handle, gen_outcome, full_response_text,
                    content_to_save, remoteLog >>

\* the fallback block and "return extracted_text, summary_text"
Fallback ==
    /\ pc = "fallback"
    /\ extracted_text' = FallbackText(full_response_text, extracted_text, summary_text)
    /\ pc' = "finally"
    /\ UNCHANGED << args, outVars, guiVars, uploadVars, handle, gen_outcome, full_response_text,
                    summary_text, content_to_save, remoteLog >>

\* FinallyDelete as the last statement of the try block instead of a finally
\* block: skipped when generation raised
FinallyDeleteNotOnRaise(ok) ==
    /\ pc = "finally"
    /\ IF handle # 0 /\ gen_outcome # "raised"
       THEN /\ deleteCalls' = [deleteCalls EXCEPT ![handle] = @ + 1]
            /\ deleteFails' = IF ok THEN deleteFails ELSE deleteFails + 1
       ELSE UNCHANGED << deleteCalls, deleteFails >>
    /\ pc' = "save"
    /\ UNCHANGED << args, outVars, guiVars, uploadVars, handle, analysisVars, uploadCalls,
                    uploadFails, getFileCalls, getFileFails, generateCalls,
                    saveCalls, outcome, uploadsAtExit >>

\* the finally block: genai.delete_file inside its own try/except, after
\* which the pending return completes; ok is whether the call returned
FinallyDelete(ok) ==
    /\ pc = "finally"
    /\ IF handle # 0
       THEN /\ deleteCalls' = [deleteCalls EXCEPT ![handle] = @ + 1]
            /\ deleteFails' = IF ok THEN deleteFails ELSE deleteFails + 1
       ELSE UNCHANGED << deleteCalls, deleteFails >>
    /\ pc' = "save"
    /\ UNCHANGED << args, outVars, guiVars, uploadVars, handle, analysisVars, uploadCalls,
                    uploadFails, getFileCalls, getFileFails, generateCalls,
                    saveCalls, outcome, uploadsAtExit >>

\* Python truthiness of an optional str
Truthy(x) == x.present /\ x.text # <<>>

\* ContentToSave testing "summary_text is not None" instead of its truth value
ContentToSaveWhenPresent(mode, et, st) ==
    IF mode = "summary" /\ st.present THEN st ELSE et

\* "summary_text if args.mode == 'summary' and summary_text else extracted_text"
ContentToSave(mode, et, st) ==
    IF mode = "summary" /\ Truthy(st) THEN st ELSE et

(***************************************************************************)
(* The output writers.  A file is what open(...).write or doc.save left at *)
(* output_path; old is the file that was there, ok is whether the          *)
(* file-system operations succeeded.                                       *)
(***************************************************************************)
BaseName == <<"d", "o", "c">>

\* "{'Summary' if mode == 'summary' else 'Extracted Text'} - {base_filename}"
Title(mode) ==
    (IF mode = "summary"
     THEN <<"S", "u", "m", "m", "a", "r", "y">>
     ELSE <<"E", "x", "t", "r", "a", "c", "t", "e", "d", " ", "T", "e", "x", "t">>)
       \o <<" ", "-", " ">> \o BaseName

\* save_to_text_file
save_to_text_file(content, old, ok) ==
    IF ~content.present THEN old
    ELSE IF ~ok THEN old
    ELSE [kind |-> "text", content |-> content.text]

\* content.split('\n')
split_newline(s) ==
    LET nl == {i \in 1..Len(s) : s[i] = "\n"}
        n == Cardinality(nl)
        pos(k) == IF k = 0 THEN 0
                  ELSE IF k = n + 1 THEN Len(s) + 1
                  ELSE CHOOSE i \in nl : Cardinality({j \in nl : j < i}) = k - 1
    IN  [k \in 1..(n + 1) |-> SubSeq(s, pos(k - 1) + 1, pos(k) - 1)]

\* "if para.strip():" of the loop over the chunks
KeepChunk(para) == strip(para) # <<>>

\* the paragraph the loop adds for one chunk
ContentParagraph(para, rtl) ==
    [text |-> para, alignment |-> IF rtl THEN "RIGHT" ELSE "INHERIT",
     bold |-> FALSE]

\* the loop "for para in paragraphs" without the test of para.strip()
ContentParagraphsKeepBlank(content, rtl) ==
    LET chunks == split_newline(content)
    IN  [k \in 1..Len(chunks) |-> ContentParagraph(chunks[k], rtl)]

\* the loop "for para in paragraphs"
ContentParagraphs(content, rtl) ==
    LET chunks == SelectSeq(split_newline(content), KeepChunk)
    IN  [k \in 1..Len(chunks) |-> ContentParagraph(chunks[k], rtl)]

\* save_to_word_file
save_to_word_file(content, old, title, lang, ok) ==
    IF ~content.present THEN old
    ELSE IF ~ok THEN old
    ELSE [kind |-> "docx",
          normal_alignment |-> IF lang = "arabic" THEN "RIGHT" ELSE "INHERIT",
          paragraphs |->
             << [text |-> title, alignment |-> "CENTER", bold |-> TRUE],
                [text |-> <<>>, alignment |-> "INHERIT", bold |-> FALSE] >>
                \o ContentParagraphs(content.text, lang = "arabic")]

\* "3. Save results": the choice of the content and the call of the writer
SaveResults(ok) ==
    /\ pc = "save"
    /\ content_to_save' = ContentToSave(extract_mode, extracted_text, summary_text)
    /\ IF Truthy(content_to_save')
       THEN /\ saveCalls' = saveCalls + 1
            /\ output_file' =
                  IF output_format = "docx"
                  THEN save_to_word_file(content_to_save', output_file,
                                         Title(extract_mode), language, ok)
                  ELSE save_to_text_file(content_to_save', output_file, ok)
       ELSE UNCHANGED << saveCalls, output_file >>
    /\ pc' = "done"
    /\ UNCHANGED << args, language, output_format, guiVars, uploadVars, handle,
                    gen_outcome, full_response_text, extracted_text,
                    summary_text, uploadCalls, uploadFails, getFileCalls,
                    getFileFails, deleteCalls, deleteFails, generateCalls,
                    outcome, uploadsAtExit >>

Next ==
    \/ UploadEntry
    \/ LoopHead
    \/ \E s \in FileStates : UploadOk(s)
    \/ UploadFail
    \/ PollTimeout
    \/ \E s \in FileStates, lat \in 0..MaxLatency : GetFileOk(s, lat)
    \/ GetFileFail
    \/ PollExit
    \/ \E ok \in BOOLEAN : CleanupDelete(ok)
    \/ MainCheck
    \/ GenerateRaises
    \/ GenerateNoText
    \/ \E r \in Responses : GenerateText(r)
    \/ MarkerSearch
    \/ Fallback
    \/ \E ok \in BOOLEAN : FinallyDelete(ok)
    \/ \E ok \in BOOLEAN : SaveResults(ok)

Spec == Init /\ [][Next]_vars

(***************************************************************************)
(* upload_file_to_gemini called on its own, as the GUI worker and __main__  *)
(* call it.  The function is one sequential thread that keeps running:     *)
(* whenever a step is possible, a step is eventually taken.                *)
(***************************************************************************)
InitUpload ==
    /\ Init
    /\ extract_mode = "full"
    /\ language = "arabic"
    /\ output_format = "text"

NextUpload ==
    \/ UploadEntry
    \/ LoopHead
    \/ \E s \in FileStates : UploadOk(s)
    \/ UploadFail
    \/ PollTimeout
    \/ \E s \in FileStates, lat \in 0..MaxLatency : GetFileOk(s, lat)
    \/ GetFileFail
    \/ PollExit
    \/ \E ok \in BOOLEAN : CleanupDelete(ok)

FairSpec == InitUpload /\ [][NextUpload]_vars /\ WF_vars(NextUpload)

(***************************************************************************)
(* The parser on its own: a raw response is assembled from pieces and      *)
(* handed to the parsing part of analyze_document.                         *)
(***************************************************************************)
InitParse ==
    /\ pc = "build"
    /\ file_exists = TRUE
    /\ retries = 0
    /\ extract_mode \in Modes
    /\ attempt = 0
    /\ uploaded_file = 0
    /\ file_state = "ACTIVE"
    /\ elapsed = 0
    /\ handle = 0
    /\ gen_outcome = "none"
    /\ full_response_text = <<>>
    /\ extracted_text = None
    /\ summary_text = None
    /\ content_to_save = None
    /\ uploadCalls = 0
    /\ uploadFails = 0
    /\ getFileCalls = "none"
    /\ getFileFails = 0
    /\ deleteCalls = <<>>
    /\ deleteFails = 0
    /\ generateCalls = 0
    /\ saveCalls = 0
    /\ outcome = <<>>
    /\ uploadsAtExit = 0
    /\ npieces = 0
    /\ language = "arabic"
    /\ output_format = "text"
    /\ output_file = NoFile
    /\ gui = GuiInit
    /\ worker = WorkerIdle
    /\ launched = NotLaunched

\* the response grows by the piece p
AddPiece(p) ==
    /\ pc = "build"
    /\ npieces < MaxPieces
    /\ npieces' = npieces + 1
    /\ full_response_text' = full_response_text \o p
    /\ UNCHANGED << pc, file_exists, retries, extract_mode, outVars, guiVars,
                    uploadVars, handle,
                    gen_outcome, extracted_text, summary_text, content_to_save,
                    remoteLog >>

\* "full_response_text = response.text"
Received ==
    /\ pc = "build"
    /\ gen_outcome' = "text"
    /\ pc' = "parse"
    /\ UNCHANGED << args, outVars, guiVars, uploadVars, handle, full_response_text,
                    extracted_text, summary_text, content_to_save, remoteLog >>

NextParse ==
    \/ \E p \in Pieces : AddPiece(p)
    \/ Received
    \/ MarkerSearch
    \/ Fallback

ParseSpec == InitParse /\ [][NextParse]_vars

(***************************************************************************)
(* save_to_word_file on its own: a content is assembled from pieces (or    *)
(* left None) and handed to the writer with a title and a language.        *)
(***************************************************************************)
WritePieces ==
    { Hello, Blank, <<"\n">>, <<" ", "a", "b", " ">>, <<"\t", "\n", "x">> }

InitWrite ==
    /\ pc = "write_build"
    /\ file_exists = TRUE
    /\ retries = 0
    /\ extract_mode \in Modes
    /\ attempt = 0
    /\ uploaded_file = 0
    /\ file_state = "ACTIVE"
    /\ elapsed = 0
    /\ handle = 0
    /\ gen_outcome = "none"
    /\ full_response_text = <<>>
    /\ extracted_text = None
    /\ summary_text = None
    /\ content_to_save = None
    /\ uploadCalls = 0
    /\ uploadFails = 0
    /\ getFileCalls = "none"
    /\ getFileFails = 0
    /\ deleteCalls = <<>>
    /\ deleteFails = 0
    /\ generateCalls = 0
    /\ saveCalls = 0
    /\ outcome = <<>>
    /\ uploadsAtExit = 0
    /\ npieces = 0
    /\ language \in Languages
    /\ output_format = "docx"
    /\ output_file = NoFile
    /\ gui = GuiInit
    /\ worker = WorkerIdle
    /\ launched = NotLaunched

\* the content grows by the piece p (the first piece makes it a str)
WriteAddPiece(p) ==
    /\ pc = "write_build"
    /\ npieces < MaxPieces
    /\ npieces' = npieces + 1
    /\ content_to_save' = Some(content_to_save.text \o p)
    /\ UNCHANGED << pc, file_exists, retries, extract_mode, outVars, guiVars,
                    uploadVars, handle, gen_outcome, full_response_text,
                    extracted_text, summary_text, remoteLog >>

\* save_to_word_file(content, output_path, title, language) is called
CallSaveWord(ok) ==
    /\ pc = "write_build"
    /\ saveCalls' = saveCalls + 1
    /\ output_file' = save_to_word_file(content_to_save, output_file,
                                        Title(extract_mode), language, ok)
    /\ pc' = "written"
    /\ UNCHANGED << args, language, output_format, guiVars, uploadVars, handle,
                    analysisVars, uploadCalls, uploadFails, getFileCalls,
                    getFileFails, deleteCalls, deleteFails, generateCalls,
                    outcome, uploadsAtExit >>

NextWrite ==
    \/ \E p \in WritePieces : WriteAddPiece(p)
    \/ \E ok \in BOOLEAN : CallSaveWord(ok)

WriteSpec == InitWrite /\ [][NextWrite]_vars

(***************************************************************************)
(* The GUI (src/app.py): the Tk main loop handles the user's events one at *)
(* a time while the analysis thread started by start_analysis runs         *)
(* DocumentAnalyzerGUI.analyze_document and reads the Tk variables when it *)
(* needs them.  The worker record keeps every value the thread has read;   *)
(* launched keeps the values of the variables when the thread was started. *)
(***************************************************************************)
cliVars ==
    << pc, args, language, output_format, uploadVars, handle, analysisVars,
       remoteLog >>

\* files the user can pick in the "Select Input File" dialog
InputFiles == {"d/a.pdf"}

\* paths the user can type in the output entry or pick in browse_output
OutputPaths == {"", "o/out.txt"}

\* os.path.dirname
dirname(path) == IF path = "d/a.pdf" THEN "d" ELSE ""

\* os.path.splitext(os.path.basename(path))[0]
base_filename(path) == IF path = "d/a.pdf" THEN "a" ELSE ""

\* update_default_output_path: the value it sets output_path to
update_default_output_path(g, input_filename) ==
    LET ext == IF g.output_format = "docx" THEN ".docx" ELSE ".txt"
    IN  dirname(input_filename) \o "/" \o base_filename(input_filename)
          \o "_" \o g.extract_mode \o "_" \o g.language \o ext

InitGui ==
    /\ Init
    /\ file_exists = TRUE
    /\ retries = 0
    /\ extract_mode = "full"
    /\ language = "arabic"
    /\ output_format = "text"

\* browse_input, a file chosen in the dialog
BrowseInput(filename) ==
    /\ gui' = [gui EXCEPT !.input_path = filename,
                          !.output_path = update_default_output_path(gui, filename)]
    /\ UNCHANGED << cliVars, output_file, worker, launched >>

\* a click on an Extraction Mode radio button (no command bound)
SelectMode(m) ==
    /\ gui' = [gui EXCEPT !.extract_mode = m]
    /\ UNCHANGED << cliVars, output_file, worker, launched >>

\* a click on a Language radio button (no command bound)
SelectLanguage(l) ==
    /\ gui' = [gui EXCEPT !.language = l]
    /\ UNCHANGED << cliVars, output_file, worker, launched >>

\* a click on an Output Format radio button, then update_output_extension
SelectFormat(f) ==
    /\ LET g == [gui EXCEPT !.output_format = f]
       IN  gui' = IF g.input_path # ""
                  THEN [g EXCEPT !.output_path =
                                   update_default_output_path(g, g.input_path)]
                  ELSE g
    /\ UNCHANGED << cliVars, output_file, worker, launched >>

\* the output entry edited, or browse_output with a file chosen
EditOutputPath(p) ==
    /\ gui' = [gui EXCEPT !.output_path = p]
    /\ UNCHANGED << cliVars, output_file, worker, launched >>

\* clear_all
clear_all ==
    /\ gui' = [gui EXCEPT !.input_path = "", !.output_path = "",
                          !.language = "arabic", !.output_format = "text",
                          !.extract_mode = "full"]
    /\ UNCHANGED << cliVars, output_file, worker, launched >>

\* start_analysis: a click on the Analyze button, which a disabled button
\* does not deliver
start_analysis ==
    /\ gui.analyze_button = "normal"
    /\ IF gui.input_path = ""
       THEN UNCHANGED << gui, worker, launched >>
       ELSE LET out == IF gui.output_path = ""
                       THEN update_default_output_path(gui, gui.input_path)
                       ELSE gui.output_path
            IN  /\ gui' = [gui EXCEPT !.output_path = out,
                                      !.processing = TRUE,
                                      !.analyze_button = "disabled"]
                /\ worker' = [WorkerIdle EXCEPT !.pc = "upload",
                                                !.threads = worker.threads + 1]
                /\ launched' = [input_path |-> gui.input_path,
                                output_path |-> out,
                                language |-> gui.language,
                                output_format |-> gui.output_format,
                                extract_mode |-> gui.extract_mode]
    /\ UNCHANGED << cliVars, output_file >>

\* what analyze_document returned to the thread, as text: nothing, the
\* extracted text, or the summary
WorkerContent(c) ==
    IF c = "summary" THEN Some(SummarySection)
    ELSE IF c = "text" THEN Some(Hello)
    ELSE None

\* line 203: upload_file_to_gemini(self.input_path.get()); no file is
\* uploaded from an empty path
WorkerUpload(ok) ==
    /\ worker.pc = "upload"
    /\ ok => gui.input_path # ""
    /\ worker' = [worker EXCEPT !.pc = IF ok THEN "analyze" ELSE "finally"]
    /\ UNCHANGED << cliVars, output_file, gui, launched >>

\* lines 207-211: doc_analyzer.analyze_document(uploaded_file,
\* self.extract_mode.get(), self.language.get()); a summary comes back only
\* in summary mode
WorkerAnalyze(res) ==
    /\ worker.pc = "analyze"
    /\ res = "both" => gui.extract_mode = "summary"
    /\ worker' = [worker EXCEPT !.analysis_mode = gui.extract_mode,
                                !.result = res,
                                !.pc = "choose"]
    /\ UNCHANGED << cliVars, output_file, gui, launched >>

\* line 214: content_to_save, with extract_mode read again
WorkerChoose ==
    /\ worker.pc = "choose"
    /\ worker' = [worker EXCEPT
                    !.content = IF gui.extract_mode = "summary" /\ worker.result = "both"
                                THEN "summary"
                                ELSE IF worker.result = "none" THEN "none"
                                ELSE "text",
                    !.pc = "save_test"]
    /\ UNCHANGED << cliVars, output_file, gui, launched >>

\* line 217: "if content_to_save and self.output_path.get()"
WorkerSaveTest ==
    /\ worker.pc = "save_test"
    /\ worker' = [worker EXCEPT !.pc =
                    IF worker.content # "none" /\ gui.output_path # ""
                    THEN "format" ELSE "finally"]
    /\ UNCHANGED << cliVars, output_file, gui, launched >>

\* line 218: "if self.output_format.get() == 'docx'"
WorkerFormat ==
    /\ worker.pc = "format"
    /\ worker' = [worker EXCEPT !.output_format = gui.output_format,
                                !.pc = IF gui.output_format = "docx"
                                       THEN "title" ELSE "save"]
    /\ UNCHANGED << cliVars, output_file, gui, launched >>

\* lines 219-220: base_filename from input_path, title from extract_mode
WorkerTitle ==
    /\ worker.pc = "title"
    /\ worker' = [worker EXCEPT !.title_mode = gui.extract_mode,
                                !.pc = "save"]
    /\ UNCHANGED << cliVars, output_file, gui, launched >>

\* lines 221-226 and 228-231: the call of the writer, on the file at the
\* path output_path has now
WorkerSave(ok) ==
    /\ worker.pc = "save"
    /\ output_file' =
          IF worker.output_format = "docx"
          THEN save_to_word_file(WorkerContent(worker.content), output_file,
                                 Title(worker.title_mode), gui.language, ok)
          ELSE save_to_text_file(WorkerContent(worker.content), output_file, ok)
    /\ worker' = [worker EXCEPT !.pc = "finally"]
    /\ UNCHANGED << cliVars, gui, launched >>

\* line 247: self.root.after(0, self.finalize_analysis), and the thread ends
WorkerFinally ==
    /\ worker.pc = "finally"
    /\ worker' = [WorkerIdle EXCEPT !.pc = "after",
                                    !.threads = worker.threads - 1]
    /\ UNCHANGED << cliVars, output_file, gui, launched >>

\* finalize_analysis, run by the main loop
finalize_analysis ==
    /\ worker.pc = "after"
    /\ gui' = [gui EXCEPT !.processing = FALSE, !.analyze_button = "normal"]
    /\ worker' = WorkerIdle
    /\ launched' = NotLaunched
    /\ UNCHANGED << cliVars, output_file >>

NextGui ==
    \/ \E f \in InputFiles : BrowseInput(f)
    \/ \E m \in Modes : SelectMode(m)
    \/ \E l \in Languages : SelectLanguage(l)
    \/ \E f \in Formats : SelectFormat(f)
    \/ \E p \in OutputPaths : EditOutputPath(p)
    \/ clear_all
    \/ start_analysis
    \/ \E ok \in BOOLEAN : WorkerUpload(ok)
    \/ \E res \in {"none", "text", "both"} : WorkerAnalyze(res)
    \/ WorkerChoose
    \/ WorkerSaveTest
    \/ WorkerFormat
    \/ WorkerTitle
    \/ \E ok \in BOOLEAN : WorkerSave(ok)
    \/ WorkerFinally
    \/ finalize_analysis

GuiSpec == InitGui /\ [][NextGui]_vars

(***************************************************************************)
(* Properties of the pipeline (checked under Spec).                        *)
(***************************************************************************)
\* upload_file_to_gemini has returned to __main__
UploadDone == pc \in {"main_check", "generate", "parse", "fallback", "finally", "save", "done"}

Handles == 1..Len(deleteCalls)

\* C1: when the whole run is over, every handle a successful upload call
\* returned has had exactly one delete call issued against it.
C1_EveryHandleDeletedOnce ==
    pc = "done" => \A h \in Handles : deleteCalls[h] = 1

\* C2: analyze_document issues exactly one delete call against its handle on
\* every exit path, and a failing delete call neither changes the returned
\* pair nor keeps control from returning to the caller.
C2_AnalyzeDeletesExactlyOnce ==
    /\ pc \in {"generate", "parse", "fallback", "finally"} =>
          handle \in Handles /\ deleteCalls[handle] = 0
    /\ pc = "save" \/ (pc = "done" /\ handle # 0) =>
          /\ handle \in Handles
          /\ deleteCalls[handle] = 1
          /\ gen_outcome \in {"raised", "no_text", "text"}
          /\ gen_outcome \in {"raised", "no_text"} =>
                extracted_text = None /\ summary_text = None
          /\ gen_outcome = "text" =>
                /\ summary_text = MarkerSummary(full_response_text, extract_mode)
                /\ extracted_text =
                      FallbackText(full_response_text,
                                   MarkerText(full_response_text), summary_text)
    /\ deleteFails > 0 /\ handle # 0 => pc \in {"save", "done"}

\* the delete call of the finally block failed after a successful parse
C2_Witness ==
    /\ pc = "done"
    /\ handle # 0
    /\ deleteFails = 1
    /\ gen_outcome = "text"
    /\ extracted_text.present
    /\ extracted_text.text = <<"H", "E", "L", "L", "O">>

\* C3: a handle that stays PROCESSING beyond the processing timeout makes
\* upload_file_to_gemini return failure after exactly one delete call
\* against it, whether or not that call fails, and no upload call follows.
C3_TimeoutDeletesOnceAndFails ==
    /\ pc = "timeout_cleanup" =>
          /\ elapsed > processing_timeout
          /\ outcome[uploaded_file] = "timed_out"
          /\ deleteCalls[uploaded_file] = 0
    /\ \A h \in Handles :
          outcome[h] = "timed_out" /\ UploadDone =>
             /\ handle = 0
             /\ deleteCalls[h] = 1
             /\ uploadCalls = uploadsAtExit
             /\ pc \in {"main_check", "done"}

\* the timeout was hit and the clean-up delete call failed
C3_Witness ==
    /\ pc = "done"
    /\ \E h \in Handles : outcome[h] = "timed_out" /\ deleteCalls[h] = 1
    /\ deleteFails = 1

\* C4: k upload failures in a row (k < retries) followed by a successful
\* upload whose handle becomes ACTIVE: that handle is returned after exactly
\* k + 1 upload calls; and the orchestrator does not give up while fewer
\* than `retries` calls have failed.
C4_SucceedsAfterKFailures ==
    /\ UploadDone /\ Len(outcome) >= 1 /\ outcome[1] = "ACTIVE" =>
          /\ handle = 1
          /\ uploadFails < retries
          /\ uploadCalls = uploadFails + 1
    /\ UploadDone /\ file_exists /\ getFileFails = 0 /\ uploadFails < retries =>
          uploadCalls = uploadFails + 1

\* two failures, then a success with retries = 3
C4_Witness ==
    /\ pc = "main_check"
    /\ retries = 3
    /\ uploadFails = 2
    /\ uploadCalls = 3
    /\ outcome = <<"ACTIVE">>
    /\ handle = 1

\* C5: when every upload call fails the function returns failure after
\* exactly `retries` upload calls and no delete call; and the number of
\* upload calls never exceeds `retries`.
C5_UploadCallsBoundedByRetries ==
    /\ uploadCalls <= retries
    /\ UploadDone /\ file_exists /\ uploadFails = uploadCalls =>
          /\ handle = 0
          /\ uploadCalls = retries
          /\ deleteCalls = <<>>

\* three upload calls, all failed
C5_Witness ==
    /\ pc = "done"
    /\ retries = 3
    /\ uploadFails = 3
    /\ uploadCalls = 3
    /\ handle = 0

\* C6: at the return of upload_file_to_gemini, a handle that left PROCESSING
\* is the returned one iff its state was ACTIVE, and then no delete call was
\* issued against it; in state DELETED it got no delete call, in any other
\* state exactly one, and failure is returned.
C6_TerminalStateDecides ==
    pc = "main_check" =>
       /\ handle # 0 => handle \in Handles /\ outcome[handle] = "ACTIVE"
       /\ \A h \in Handles :
             /\ outcome[h] = "ACTIVE" => handle = h /\ deleteCalls[h] = 0
             /\ outcome[h] = "DELETED" => handle = 0 /\ deleteCalls[h] = 0
             /\ outcome[h] \in FileStates \ {"PROCESSING", "ACTIVE", "DELETED"} =>
                   handle = 0 /\ deleteCalls[h] = 1

\* a handle left PROCESSING in state FAILED after at least one poll
C6_Witness ==
    /\ pc = "main_check"
    /\ getFileCalls = "some"
    /\ \E h \in Handles : outcome[h] = "FAILED" /\ deleteCalls[h] = 1

\* C7: a failed upload stage means no generation request and no output
\* file; a missing input file means no remote call at all; no content to
\* save means no output file.
C7_FailureShortCircuits ==
    /\ UploadDone /\ handle = 0 => generateCalls = 0 /\ saveCalls = 0
    /\ generateCalls > 0 => handle # 0
    /\ ~file_exists =>
          /\ uploadCalls = 0
          /\ getFileCalls = "none"
          /\ deleteCalls = <<>>
          /\ generateCalls = 0
          /\ saveCalls = 0
    /\ pc = "done" /\ handle # 0 =>
          saveCalls = IF Truthy(content_to_save) THEN 1 ELSE 0
    /\ pc = "done" /\ ~extracted_text.present /\ ~summary_text.present =>
          saveCalls = 0

\* the upload stage failed on a processing timeout and the run is over
C7_Witness ==
    /\ pc = "done"
    /\ handle = 0
    /\ file_exists
    /\ \E h \in Handles : outcome[h] = "timed_out"

(***************************************************************************)
(* Properties of the parser (checked under ParseSpec).  The sections are   *)
(* described here by positions in the raw response, not by the search      *)
(* that analyze_document runs.                                             *)
(***************************************************************************)
\* c and d are the same character up to case
CasePairs ==
    UNION {{<<UpperCase[i], LowerCase[i]>>, <<LowerCase[i], UpperCase[i]>>} :
              i \in 1..Len(UpperCase)}

SameLetter(c, d) == c = d \/ <<c, d>> \in CasePairs

\* the marker m stands in s at position i, in any mix of cases
OccursAt(s, i, m) ==
    /\ i + Len(m) - 1 <= Len(s)
    /\ \A k \in 1..Len(m) : SameLetter(s[i + k - 1], m[k])

Occurrences(s, m) == {i \in 1..Len(s) : OccursAt(s, i, m)}

Least(S) == CHOOSE x \in S : \A y \in S : x <= y

\* the occurrences of b that begin after the end of the first occurrence of a
EndsAfterFirst(s, a, b) ==
    IF Occurrences(s, a) = {} THEN {}
    ELSE {j \in Occurrences(s, b) : j >= Least(Occurrences(s, a)) + Len(a)}

HasPair(s, a, b) == EndsAfterFirst(s, a, b) # {}

\* the text strictly between the first a and the first b after it
Between(s, a, b) ==
    SubSeq(s, Least(Occurrences(s, a)) + Len(a), Least(EndsAfterFirst(s, a, b)) - 1)

NonSpace(s) == {k \in 1..Len(s) : s[k] \notin {" ", "\n", "\t", "\r"}}

\* s without its leading and trailing whitespace
Trimmed(s) ==
    IF NonSpace(s) = {} THEN <<>>
    ELSE SubSeq(s,
                CHOOSE k \in NonSpace(s) : \A j \in 1..(k - 1) : j \notin NonSpace(s),
                CHOOSE k \in NonSpace(s) : \A j \in (k + 1)..Len(s) : j \notin NonSpace(s))

\* the section delimited by the first a and the first b after it, if any
Section(s, a, b) ==
    IF HasPair(s, a, b) THEN Some(Trimmed(Between(s, a, b))) ELSE None

\* C8: fullText is the trimmed text strictly between the first text start
\* marker and the first text end marker after it, in any case and across
\* newlines; without such a pair the marker search yields no fullText.
C8_FullTextIsFirstMarkedSection ==
    /\ pc = "fallback" =>
          extracted_text =
             Section(full_response_text, TEXT_START_MARKER, TEXT_END_MARKER)
    /\ pc = "finally" /\ gen_outcome = "text"
         /\ HasPair(full_response_text, TEXT_START_MARKER, TEXT_END_MARKER) =>
          extracted_text =
             Section(full_response_text, TEXT_START_MARKER, TEXT_END_MARKER)

\* a mixed-case start marker, a body spanning newlines, an end marker
C8_Witness ==
    /\ pc = "finally"
    /\ full_response_text = MixedCaseStart \o Hello \o TEXT_END_MARKER
    /\ extracted_text = Some(<<"H", "E", "L", "L", "O">>)

\* a section was found by the marker searches that the mode runs
SectionFound(raw, mode) ==
    \/ HasPair(raw, TEXT_START_MARKER, TEXT_END_MARKER)
    \/ mode = "summary" /\ HasPair(raw, SUMMARY_START_MARKER, SUMMARY_END_MARKER)

\* C9: the whole trimmed response is returned as fullText exactly when no
\* section was found and the response has non-whitespace content; a found
\* section is never replaced; a blank response gives two absent results.
C9_FallbackExactlyWhenNothingFound ==
    pc = "finally" /\ gen_outcome = "text" =>
       /\ extracted_text = Some(Trimmed(full_response_text))
             <=> /\ ~SectionFound(full_response_text, extract_mode)
                 /\ NonSpace(full_response_text) # {}
       /\ SectionFound(full_response_text, extract_mode) =>
             extracted_text =
                Section(full_response_text, TEXT_START_MARKER, TEXT_END_MARKER)
       /\ NonSpace(full_response_text) = {} =>
             extracted_text = None /\ summary_text = None

\* a response without a complete marker pair is returned whole, trimmed
C9_Witness ==
    /\ pc = "finally"
    /\ full_response_text = Blank \o TEXT_START_MARKER \o Hello
    /\ extracted_text = Some(TEXT_START_MARKER \o <<"\n", "H", "E", "L", "L", "O">>)

\* C10: in FULL mode summaryText is absent whatever the response holds; in
\* SUMMARY mode it is the trimmed text between the first summary start
\* marker and the first summary end marker after it, or absent.
C10_SummaryOnlyInSummaryMode ==
    pc \in {"fallback", "finally"} /\ gen_outcome = "text" =>
       /\ extract_mode = "full" => summary_text = None
       /\ extract_mode = "summary" =>
             summary_text =
                Section(full_response_text, SUMMARY_START_MARKER, SUMMARY_END_MARKER)

\* FULL mode on a response that holds a well-formed summary section
C10_Witness ==
    /\ pc = "finally"
    /\ extract_mode = "full"
    /\ HasPair(full_response_text, SUMMARY_START_MARKER, SUMMARY_END_MARKER)
    /\ HasPair(full_response_text, TEXT_START_MARKER, TEXT_END_MARKER)
    /\ summary_text = None

(***************************************************************************)
(* Properties of the save stage (checked under Spec).                      *)
(***************************************************************************)
\* C11 as stated: the content persisted is the summary whenever the mode is
\* SUMMARY and the parser found a summary section, whatever its content,
\* and fullText in every other case.
C11_SummaryWheneverPresent ==
    pc = "done" /\ handle # 0 =>
       content_to_save =
          IF extract_mode = "summary" /\ summary_text.present
          THEN summary_text
          ELSE extracted_text

\* C11 as amended: the content persisted is the summary whenever the mode is
\* SUMMARY and the parser found a summary section whose trimmed content is
\* not empty, and fullText in every other case (an empty summary included).
C11_SummaryWhenNonEmpty ==
    pc = "done" /\ handle # 0 =>
       content_to_save =
          IF extract_mode = "summary" /\ summary_text.present
                /\ Len(summary_text.text) > 0
          THEN summary_text
          ELSE extracted_text

\* SUMMARY mode, a summary section with blank content: fullText is chosen
C11_Witness ==
    /\ pc = "done"
    /\ extract_mode = "summary"
    /\ summary_text = Some(<<>>)
    /\ content_to_save = Some(<<"H", "E", "L", "L", "O">>)
    /\ saveCalls = 1

(***************************************************************************)
(* Properties of save_to_word_file (checked under WriteSpec).  The chunks  *)
(* are described here by their positions in the content.                   *)
(***************************************************************************)
\* the positions at which a newline-delimited chunk of s begins
ChunkStarts(s) == {a \in 1..(Len(s) + 1) : a = 1 \/ s[a - 1] = "\n"}

\* the last position of the chunk of s that begins at a (a - 1 when empty)
ChunkEnd(s, a) ==
    CHOOSE b \in (a - 1)..Len(s) :
       /\ b = Len(s) \/ s[b + 1] = "\n"
       /\ \A k \in a..b : s[k] # "\n"

\* the chunks that hold a character other than whitespace
NonBlankChunkStarts(s) ==
    {a \in ChunkStarts(s) : \E k \in a..ChunkEnd(s, a) : k \in NonSpace(s)}

\* C12: the document is the centred title, one blank spacer, then one
\* paragraph per non-blank newline-delimited chunk of the content, in the
\* original order; content paragraphs are right-aligned for arabic and
\* carry no alignment of their own otherwise.
C12_DocumentLayout ==
    pc = "written" /\ output_file.kind = "docx" =>
       LET ps == output_file.paragraphs
           c == content_to_save.text
           starts == NonBlankChunkStarts(c)
       IN  /\ Len(ps) = 2 + Cardinality(starts)
           /\ ps[1].text = Title(extract_mode)
           /\ ps[1].alignment = "CENTER"
           /\ ps[2].text = <<>>
           /\ \A a \in starts :
                 ps[2 + Cardinality({b \in starts : b <= a})].text =
                    SubSeq(c, a, ChunkEnd(c, a))
           /\ \A k \in 3..Len(ps) :
                 ps[k].alignment =
                    IF language = "arabic" THEN "RIGHT" ELSE "INHERIT"

\* an arabic document from a content with a blank chunk, a whitespace-only
\* chunk and two chunks of text
C12_Witness ==
    /\ pc = "written"
    /\ language = "arabic"
    /\ output_file.kind = "docx"
    /\ content_to_save = Some(Hello \o Blank \o <<" ", "a", "b", " ">>)
    /\ Len(output_file.paragraphs) = 4
    /\ output_file.paragraphs[4].text = <<" ", "a", "b", " ">>
    /\ output_file.paragraphs[4].alignment = "RIGHT"

(***************************************************************************)
(* Properties of the retry loop over time (checked under Spec and, for     *)
(* termination, under FairSpec).                                           *)
(***************************************************************************)
\* C13: once a remote upload call has returned a handle, the invocation
\* issues no further upload call, whatever happens afterwards.
C13_NoUploadCallAfterAHandle ==
    [][Len(deleteCalls) >= 1 => uploadCalls' = uploadCalls]_vars

\* C14 as stated: every invocation returns, after at most `retries` upload
\* calls, each handle polled for no longer than the processing timeout plus
\* one poll interval.
C14_TerminatesWithinTimeoutPlusInterval ==
    /\ <>UploadDone
    /\ [](uploadCalls <= retries)
    /\ [](elapsed <= processing_timeout + poll_interval)

\* C14 as amended: every invocation returns, after at most `retries` upload
\* calls, each handle polled for no longer than the processing timeout plus
\* one poll interval plus the duration of the last state-poll call.
C14_TerminatesWithinTimeoutPlusIntervalPlusCall ==
    /\ <>UploadDone
    /\ [](uploadCalls <= retries)
    /\ [](elapsed <= processing_timeout + poll_interval + MaxLatency)

\* a handle was polled until the timeout, and the last poll ended later than
\* the timeout plus one interval
C14_Witness ==
    /\ pc = "timeout_cleanup"
    /\ file_state = "PROCESSING"
    /\ elapsed > processing_timeout + poll_interval

(***************************************************************************)
(* Properties of the GUI (checked under GuiSpec).                          *)
(***************************************************************************)
\* the Tk variables the thread reads in the step it takes from w
ReadBy(w) ==
    IF w.pc = "upload" THEN {"input_path"}
    ELSE IF w.pc = "analyze" THEN {"extract_mode", "language"}
    ELSE IF w.pc = "choose" THEN {"extract_mode"}
    ELSE IF w.pc = "save_test" /\ w.content # "none" THEN {"output_path"}
    ELSE IF w.pc = "format" THEN {"output_format"}
    ELSE IF w.pc = "title" THEN {"input_path", "extract_mode"}
    ELSE IF w.pc = "save" /\ w.output_format = "docx" THEN {"output_path", "language"}
    ELSE IF w.pc = "save" THEN {"output_path"}
    ELSE {}

\* C15: at most one analysis thread is in flight, and every parameter the
\* thread reads during its run has the value it had when start_analysis
\* launched the run; so the mode passed to the analysis is the mode used to
\* choose the content to save and to build the title.
C15_WorkerSeesLaunchValues ==
    [][/\ worker'.threads <= 1
       /\ worker'.pc # worker.pc =>
             \A f \in ReadBy(worker) : gui[f] = launched[f]
       /\ worker'.pc = "save" /\ worker'.title_mode # "" =>
             worker'.title_mode = worker'.analysis_mode]_vars

====
